---- MODULE Spec2Model ----
(***************************************************************************)
(* State-machine model of the audio-reactive visualizer component          *)
(* (src/components/Visualizer.tsx, the component of lines 633-1368: the    *)
(* one with lyrics, digital rain and export configuration).                *)
(*                                                                         *)
(* React state is modelled as two records: `st` is the state of the last   *)
(* committed render (what the DOM shows and what the closures created by   *)
(* that render captured), `pend` holds the values written by the setState  *)
(* calls that no render has committed yet.  Refs are written immediately.  *)
(* Platform objects (audio contexts, buffer sources, media recorders,      *)
(* animation-frame callbacks) are indexed by the initializeAudio           *)
(* invocation that created them.                                           *)
(*                                                                         *)
(* Numbers the code keeps as floats are kept as integers in a fixed unit:  *)
(*   particle life          in 1/LifeScale      (1.0  = 100, step 0.03 = 3)*)
(*   decoded characters     in 1/DecodedScale   (1.5  = 3)                 *)
(*   hue shift              in 1/HueScale       (0.02 = 20, 0.001 = 1)     *)
(*   rain drop offsets      in 1/DropUnit       (bass*3 = bassSum/850)     *)
(*   bass, mid, high        as the band sums    (bass = bassSum/10/255)    *)
(***************************************************************************)
EXTENDS Integers, Sequences, FiniteSets, TLC

\* ------------------------------------------------------------------ bounds
MaxStarts == 2
MaxFrames == 2
MaxTime == 1
MaxGen == 1
MaxSpawnFrames == 1
QuietFrames == 35

\* ------------------------------------------------------- program constants
FftSize == 2048
NumBins == FftSize \div 2
BassBins == 10
MidEnd == 100
ByteMax == 255
LifeScale == 100
DecayStep == 3
DecodedScale == 2
RevealStep == 3
HueScale == 1000
HueBassStep == 20
HueStep == 1
DropUnit == 850
SpawnK == 4
SpawnK1 == 5
DecayStep1 == 5
DefaultDuration == 3
Null == 0

\* ------------------------------------------------------------- lyric lines
\* A parsed transcription value.  isArray = FALSE stands for a JSON value
\* that is not an array (an object); a line with hasText = FALSE is an
\* entry without a "text" member, one with hasDuration = FALSE an entry
\* without a "duration" member (its duration field is then of no meaning).
Line(time, duration, text, emoji) ==
    [time |-> time, duration |-> duration, hasDuration |-> TRUE, text |-> text,
     hasText |-> TRUE, emoji |-> emoji]

LineNoDuration(time, text, emoji) ==
    [time |-> time, duration |-> 0, hasDuration |-> FALSE, text |-> text,
     hasText |-> TRUE, emoji |-> emoji]

NoTextLine(time) ==
    [time |-> time, duration |-> 0, hasDuration |-> FALSE, text |-> <<>>,
     hasText |-> FALSE, emoji |-> FALSE]

Arr(lines) == [isArray |-> TRUE, lines |-> lines]

EmptyLyrics == Arr(<<>>)

NotAnArray == [isArray |-> FALSE, lines |-> <<>>]

\* lyrics.length === 0 (undefined === 0 is false for a non-array object)
LengthIsZero(lyr) == lyr.isArray /\ Len(lyr.lines) = 0

\* ---------------------------------------------------------- configuration
Resolutions == {"1080p", "4K"}

AspectRatios == {"16:9", "9:16"}

DefaultConfig == [resolution |-> "1080p", aspectRatio |-> "16:9"]

Configs == [resolution : Resolutions, aspectRatio : AspectRatios]

\* ------------------------------------------------------------ the runtime
\* What the platform offers; fixed for the life of the page.
\*   mime     : the first entry of the preference list that
\*              MediaRecorder.isTypeSupported accepts, or "none"
\*   webgl    : canvas.getContext('webgl') returns a context
\*   apiKey   : process.env.API_KEY is set
\*   aistudio : window.aistudio.openSelectKey exists
MimeTypes == <<"video/mp4", "video/webm;codecs=vp9", "video/webm">>

Runtimes ==
    { [mime |-> "video/mp4", webgl |-> TRUE, apiKey |-> TRUE, aistudio |-> FALSE],
      [mime |-> "video/webm", webgl |-> TRUE, apiKey |-> TRUE, aistudio |-> TRUE],
      [mime |-> "none", webgl |-> TRUE, apiKey |-> FALSE, aistudio |-> FALSE],
      [mime |-> "video/mp4", webgl |-> FALSE, apiKey |-> FALSE, aistudio |-> FALSE] }

ContainerSizes == { <<640, 360>>, <<1920, 1080>> }

DropSeeds == { 0, -50 }

Ids == 1..MaxStarts

GenIds == 1..MaxGen

VARIABLES
    mounted,      \* the component is mounted (canvasRef, glCanvasRef, containerRef set)
    runtime,      \* the platform profile
    container,    \* containerRef.current.clientWidth / clientHeight
    st,           \* React state of the committed render
    pend,         \* React state after the setState calls not yet rendered
    refs,         \* animationFrameRef, sourceRef, audioContextRef, analyserRef,
                  \* mediaRecorderRef, glRef
    dims,         \* width/height of the main, WebGL and rain canvases
    drops,        \* matrixDropsRef
    particles,    \* particlesRef
    lyricIdx,     \* currentLyricIndexRef
    decoded,      \* lyricDecodedCharsRef
    hue,          \* hueShiftRef
    elapsed,      \* ac.currentTime - audioStartTimeRef.current, as last read
    n,            \* initializeAudio invocations so far
    inv,          \* per invocation: position and the closure it runs in
    ctx,          \* per invocation: its AudioContext
    src,          \* per invocation: its AudioBufferSourceNode
    onended,      \* per invocation: source.onended has been assigned
    rec,          \* per invocation: its MediaRecorder
    endedEv,      \* sources with an `ended` event queued
    recEv,        \* recorders with `dataavailable` + `stop` events queued
    chunks,       \* recordedChunksRef
    saved,        \* the downloads triggered (a.click()), in order
    raf,          \* callbacks requested with requestAnimationFrame, not yet run
    rafNext,      \* the next requestAnimationFrame handle
    frames,       \* animation-frame callbacks run so far
    gens,         \* generateLyrics invocations: their position
    variant,      \* which of the file's two components is mounted (1 or 2)
    uniforms,     \* uBass, uMid, uHigh as last given to the shader (band sums)
    drawn,        \* the lyric content drawn by the last tick that ran
    ctx2d,        \* the 2D context of the main canvas: whether a shake/zoom
                  \* transform is in effect, and the stack of ctx.save()
    steps         \* the steps of the last tick that ran, in order, each with
                  \* whether the transform was in effect

vars ==
    << mounted, runtime, container, st, pend, refs, dims, drops, particles,
       lyricIdx, decoded, hue, elapsed, n, inv, ctx, src, onended, rec,
       endedEv, recEv, chunks, saved, raf, rafNext, frames, gens, variant,
       uniforms, drawn, ctx2d, steps >>

\* ------------------------------------------------------ Dimension Resolver
\* Math.ceil(a / b) for positive integers
CeilDiv(a, b) == (a + b - 1) \div b

\* getDimensions as it would be without the swap of line 766
getDimensionsNoSwap(s, hasContainer, cont) ==
    IF s.isPlaying \/ s.isExporting
    THEN IF s.exportConfig.resolution = "4K" THEN <<3840, 2160>> ELSE <<1920, 1080>>
    ELSE IF hasContainer THEN cont
    ELSE <<1920, 1080>>

\* getDimensions, in the closure of a render whose state is s
getDimensions(s, hasContainer, cont) ==
    IF s.isPlaying \/ s.isExporting
    THEN LET w0 == IF s.exportConfig.resolution = "4K" THEN 3840 ELSE 1920
             h0 == IF s.exportConfig.resolution = "4K" THEN 2160 ELSE 1080
         IN  IF s.exportConfig.aspectRatio = "9:16" THEN <<h0, w0>> ELSE <<w0, h0>>
    ELSE IF hasContainer THEN cont
    ELSE <<1920, 1080>>

\* the glyph cell size of a configuration (handleResize and renderFrame)
FontSize(cfg) == IF cfg.resolution = "4K" THEN 32 ELSE 16

\* handleResize: the three canvases after the call
ResizedDims(s, hasCanvas, cont, old) ==
    LET d == getDimensions(s, hasCanvas, cont)
    IN  [main |-> IF hasCanvas THEN d ELSE old.main,
         gl   |-> IF hasCanvas THEN d ELSE old.gl,
         rain |-> d]

\* handleResize: matrixDropsRef after the call; every column starts at
\* Math.random() * -100, drawn here as one value for the whole grid
ResizedDrops(s, hasCanvas, cont, seed) ==
    LET d == getDimensions(s, hasCanvas, cont)
        columns == CeilDiv(d[1], FontSize(s.exportConfig))
    IN  [i \in 1..columns |-> seed * DropUnit]

\* the 2D context of a canvas whose width was just assigned: the assignment
\* resets the transform and empties the stack of saved states
BlankCtx == [shaken |-> FALSE, saved |-> <<>>]

\* steps of a tick, each marked with whether the transform is in effect
Marked(names, sh) == [j \in 1..Len(names) |-> [step |-> names[j], shaken |-> sh]]

\* the effect of lines 793-803 runs again when one of its dependencies
\* (handleResize, initWebGL, isPlaying) changed identity: handleResize
\* changes with getDimensions (isPlaying, isExporting, exportConfig)
EffectRuns(old, new) ==
    \/ old.isPlaying # new.isPlaying
    \/ old.isExporting # new.isExporting
    \/ old.exportConfig # new.exportConfig

\* ------------------------------------------------------ Frequency Analyzer
\* analyser.getByteFrequencyData: NumBins bytes.  The frames fed to the
\* render loop are named; FrameData gives the bytes of each.
Plateau(a, b, c) ==
    [i \in 0..(NumBins - 1) |->
        IF i < BassBins THEN a ELSE IF i < MidEnd THEN b ELSE c]

\* the first k bins at 255, the others at 0
FullBins(k) == [i \in 0..(NumBins - 1) |-> IF i < k THEN ByteMax ELSE 0]

FrameNames == {"silent", "bassOnly", "loud", "half", "sevenTenths", "full"}

FrameData(name) ==
    CASE name = "silent" -> Plateau(0, 0, 0)
      [] name = "bassOnly" -> Plateau(ByteMax, 0, 0)
      [] name = "loud" -> Plateau(160, 120, 40)
      [] name = "half" -> FullBins(5)
      [] name = "sevenTenths" -> FullBins(7)
      [] name = "full" -> Plateau(ByteMax, ByteMax, ByteMax)

\* for (let i = lo; i < hi; i++) acc += dataArray[i]; the sum is taken
\* by halves to keep the evaluation shallow
RECURSIVE SumBins(_, _, _)
SumBins(f, lo, hi) ==
    IF lo >= hi THEN 0
    ELSE IF hi = lo + 1 THEN f[lo]
    ELSE LET m == (lo + hi) \div 2
         IN  SumBins(f, lo, m) + SumBins(f, m, hi)

\* BandSums as it would be with `i <= 10` in the first loop
BandSumsInclusive(f) ==
    [bass |-> SumBins(f, 0, BassBins + 1),
     mid  |-> SumBins(f, BassBins, MidEnd),
     high |-> SumBins(f, MidEnd, NumBins)]

\* the three band sums of a frame, before the divisions of lines 967-969
\* (lines 243-245 in the first component)
BandSums(f) ==
    [bass |-> SumBins(f, 0, BassBins),
     mid  |-> SumBins(f, BassBins, MidEnd),
     high |-> SumBins(f, MidEnd, NumBins)]

BandsOf == [name \in FrameNames |-> BandSums(FrameData(name))]

\* the uniforms of a program that was never drawn with are 0
NoSound == [bass |-> 0, mid |-> 0, high |-> 0]

\* bass > num/den, for bass = bassSum / 10 / 255
BassOver(bassSum, num, den) == bassSum * den > num * BassBins * ByteMax

\* ----------------------------------------------------------- render loop
\* One rectangle particle as pushed at lines 1087-1093 and one emoji
\* particle as pushed at lines 929-935; of the drawing attributes only the
\* horizontal position and velocity are kept (y, vy are updated the same way).
RectParticle(x, vx) == [x |-> x, vx |-> vx, life |-> LifeScale, kind |-> "rect"]

EmojiParticle(x, vx) == [x |-> x, vx |-> vx, life |-> LifeScale, kind |-> "emoji"]

\* lines 1084-1095: push floor(bass * 4) rectangles when bass > 0.5
RECURSIVE Push(_, _, _)
Push(P, count, p) == IF count <= 0 THEN P ELSE Push(Append(P, p), count - 1, p)

\* SpawnCount as it would be with twice the factor
SpawnCountTwice(bassSum) ==
    IF BassOver(bassSum, 1, 2)
    THEN (bassSum * 2 * SpawnK) \div (BassBins * ByteMax) ELSE 0

\* SpawnCount as it would be with the test `bass >= 0.5`
SpawnCountAtThreshold(bassSum) ==
    IF bassSum * 2 >= BassBins * ByteMax
    THEN (bassSum * SpawnK) \div (BassBins * ByteMax) ELSE 0

SpawnCount(bassSum) ==
    IF BassOver(bassSum, 1, 2) THEN (bassSum * SpawnK) \div (BassBins * ByteMax) ELSE 0

Spawn(P, bassSum, x, vx) == Push(P, SpawnCount(bassSum), RectParticle(x, vx))

\* array.splice(i, 1), for the 1-based position i
Splice(P, i) == SubSeq(P, 1, i - 1) \o SubSeq(P, i + 1, Len(P))

\* AdvanceFrom as it would be with a smaller decrement of the life
RECURSIVE AdvanceFromSlow(_, _)
AdvanceFromSlow(P, i) ==
    IF i < 1 THEN P
    ELSE LET p == [P[i] EXCEPT !.x = @ + P[i].vx, !.life = @ - (DecayStep - 1)]
         IN  IF p.life <= 0
             THEN AdvanceFromSlow(Splice(P, i), i - 1)
             ELSE AdvanceFromSlow([P EXCEPT ![i] = p], i - 1)

\* lines 1097-1114: for (i = length - 1; i >= 0; i--), here with i 1-based
RECURSIVE AdvanceFrom(_, _)
AdvanceFrom(P, i) ==
    IF i < 1 THEN P
    ELSE LET p == [P[i] EXCEPT !.x = @ + P[i].vx, !.life = @ - DecayStep]
         IN  IF p.life <= 0
             THEN AdvanceFrom(Splice(P, i), i - 1)
             ELSE AdvanceFrom([P EXCEPT ![i] = p], i - 1)

\* Advance as it would be with the loop running forward over the pool
RECURSIVE AdvanceForwardFrom(_, _)
AdvanceForwardFrom(P, i) ==
    IF i > Len(P) THEN P
    ELSE LET p == [P[i] EXCEPT !.x = @ + P[i].vx, !.life = @ - DecayStep]
         IN  IF p.life <= 0
             THEN AdvanceForwardFrom(Splice(P, i), i + 1)
             ELSE AdvanceForwardFrom([P EXCEPT ![i] = p], i + 1)

AdvanceForward(P) == AdvanceForwardFrom(P, 1)

Advance(P) == AdvanceFrom(P, Len(P))

\* lines 1017-1036: one pass over the rain columns.  `reset` says for which
\* columns Math.random() > 0.98 came out true.
ResetDrawn(reset, i) == reset = "all" \/ (reset = "first" /\ i = 1)

ResetChoices == {"none", "first", "all"}

RainStep(D, bassSum, fontSize, h, reset) ==
    [i \in DOMAIN D |->
        (IF D[i] * fontSize > h * DropUnit /\ ResetDrawn(reset, i) THEN 0 ELSE D[i])
        + bassSum + DropUnit]

\* line 972-973
HueAfter(H, bassSum) ==
    H + (IF BassOver(bassSum, 3, 5) THEN HueBassStep ELSE 0) + HueStep

\* line 1117: lyrics.find(...) as the 1-based position of the first line
\* whose window holds t, 0 when there is none.  `l.duration || 3.0` is 3 for
\* an absent duration and for a duration of 0.
Shows(l, t) ==
    t >= l.time /\ t < l.time + (IF l.hasDuration /\ l.duration # 0
                                 THEN l.duration ELSE DefaultDuration)

FindLine(lines, t) ==
    IF \E k \in 1..Len(lines) : Shows(lines[k], t)
    THEN CHOOSE k \in 1..Len(lines) :
            /\ Shows(lines[k], t)
            /\ \A j \in 1..(k - 1) : ~Shows(lines[j], t)
    ELSE 0

\* what a tick draws for lyric content: the position of the line (0: no
\* line), the characters of the text shown, and whether a decoding glyph
\* follows them
NothingDrawn == [line |-> 0, text |-> <<>>, glyph |-> FALSE]

\* lines 1128-1131: visible = Math.floor(decoded); text.substring(0, visible)
\* (substring stops at the end of the text); a glyph when visible < length
textToShow(k, text, d) ==
    LET visible == d \div DecodedScale
    IN  [line  |-> k,
         text  |-> SubSeq(text, 1, IF visible < Len(text) THEN visible ELSE Len(text)),
         glyph |-> visible < Len(text)]

\* LyricStep as it would be without the reset of line 1122
LyricStepNoReset(lyr, t, emojiDrawn, x, vx, ts) ==
    IF ~lyr.isArray THEN [ts EXCEPT !.threw = TRUE]
    ELSE LET k == FindLine(lyr.lines, t)
         IN  IF k = 0 THEN ts
             ELSE LET l == lyr.lines[k]
                      d0 == ts.decoded
                      d1 == IF d0 < Len(l.text) * DecodedScale THEN d0 + RevealStep ELSE d0
                  IN  IF ~l.hasText
                      THEN [ts EXCEPT !.lyricIdx = k - 1, !.threw = TRUE]
                      ELSE [ts EXCEPT !.lyricIdx = k - 1, !.decoded = d1,
                                      !.drawn = textToShow(k, l.text, d1),
                                      !.particles =
                                          IF l.emoji /\ emojiDrawn
                                          THEN Append(@, EmojiParticle(x, vx))
                                          ELSE @]

\* lines 1117-1142 and 927-936: the lyric step of one tick.  ts is the
\* tick state after the particle step; the result also says whether the
\* step threw a TypeError (lyrics.find on a value that is no array,
\* lyric.text.length on a line without text).
LyricStep(lyr, t, emojiDrawn, x, vx, ts) ==
    IF ~lyr.isArray THEN [ts EXCEPT !.threw = TRUE]
    ELSE LET k == FindLine(lyr.lines, t)
         IN  IF k = 0 THEN ts
             ELSE LET l == lyr.lines[k]
                      idx == k - 1
                      changed == ts.lyricIdx # idx
                      d0 == IF changed THEN 0 ELSE ts.decoded
                      d1 == IF d0 < Len(l.text) * DecodedScale THEN d0 + RevealStep ELSE d0
                  IN  IF ~l.hasText
                      THEN [ts EXCEPT !.lyricIdx = idx, !.decoded = d0, !.threw = TRUE]
                      ELSE [ts EXCEPT !.lyricIdx = idx, !.decoded = d1,
                                      !.drawn = textToShow(k, l.text, d1),
                                      !.particles =
                                          IF l.emoji /\ emojiDrawn
                                          THEN Append(@, EmojiParticle(x, vx))
                                          ELSE @]

\* renderFrame (lines 940-1153) in the closure cl = [lyrics, exportConfig],
\* with the random draws of the tick given by rnd and the frequency frame
\* by fr.  hasCanvas: canvasRef.current and glCanvasRef.current are set;
\* r: the refs read by the guard of line 947.  ran = FALSE: the guard
\* returned; threw: an exception left the function before line 1152.
\* HandleMissing as it would be without the test of the GL context
HandleMissingButGl(hasCanvas, r) ==
    ~hasCanvas \/ r.analyser = Null \/ r.audioContext = Null

\* line 947: if (!canvas || !glCanvas || !gl || !analyser || !ac) return
HandleMissing(hasCanvas, r) ==
    ~hasCanvas \/ ~r.gl \/ r.analyser = Null \/ r.audioContext = Null

\* The steps renderFrame goes through are recorded in the order of its
\* statements: the bands (958-969), the shader (976-982), ctx.save (985), the
\* shake/zoom transform when bass > 0.4 (988-999), the background (1002), the
\* rain (1006-1042), the waveform (1045-1081), the particles (1084-1114), the
\* lyrics (1117-1142), ctx.restore (1144), the scanlines (1147-1150), the
\* request of the next callback (1152).  An exception in the lyric step
\* leaves the function there: the context keeps the transform and the saved
\* entry.
renderFrame(cl, hasCanvas, r, t, fr, rnd, ts, main) ==
    IF HandleMissing(hasCanvas, r)
    THEN [ts EXCEPT !.ran = FALSE, !.threw = FALSE]
    ELSE LET b == BandsOf[fr].bass
             t1 == [ts EXCEPT !.ran = TRUE, !.threw = FALSE,
                              !.uniforms = BandsOf[fr],
                              !.drawn = NothingDrawn,
                              !.hue = HueAfter(@, b),
                              !.drops = RainStep(@, b, FontSize(cl.exportConfig),
                                                 main[2], rnd.reset),
                              !.particles = Advance(Spawn(@, b, rnd.x, rnd.vx))]
             F == LyricStep(cl.lyrics, t, rnd.emoji, rnd.x, rnd.vx, t1)
             c0 == ts.ctx2d
             shakes == BassOver(b, 2, 5)
             inEffect == c0.shaken \/ shakes
             upToLyrics ==
                 Marked(<<"sample", "shader", "save">>, c0.shaken)
                 \o (IF shakes THEN Marked(<<"shake">>, TRUE) ELSE <<>>)
                 \o Marked(<<"background", "rain", "waveform", "particles", "lyrics">>,
                           inEffect)
         IN  IF F.threw
             THEN [F EXCEPT !.ctx2d = [shaken |-> inEffect,
                                       saved |-> Append(c0.saved, c0.shaken)],
                            !.steps = upToLyrics]
             ELSE [F EXCEPT !.ctx2d = c0,
                            !.steps = upToLyrics
                                      \o Marked(<<"restore", "scanlines", "schedule">>,
                                                c0.shaken)]

\* the tick state as a record, and the draws offered to a tick
TickState ==
    [ran |-> FALSE, threw |-> FALSE, particles |-> particles, drops |-> drops,
     lyricIdx |-> lyricIdx, decoded |-> decoded, hue |-> hue,
     uniforms |-> uniforms, drawn |-> drawn, ctx2d |-> ctx2d, steps |-> steps]

Draws == [reset : ResetChoices, emoji : BOOLEAN, x : {0}, vx : {1}]

\* ------------------------------------------------------------ React state
InitialState ==
    [file |-> FALSE, isPlaying |-> FALSE, isExporting |-> FALSE,
     isAnalyzing |-> FALSE, status |-> "SYSTEM READY",
     lyrics |-> EmptyLyrics, exportConfig |-> DefaultConfig]

\* the control panel is rendered (line 1278) and, with a file, its buttons
PanelShown == mounted /\ ~st.isPlaying

\* ------------------------------------------------------------------- stop
\* stopVisualization (lines 745-759) on the part of the state it touches.
\* W = [raf, src, endedEv, ctx, refs, pend, lyricIdx].  `fires` says whether
\* the platform still delivers the `ended` event of a source that is
\* stopped and whose context is closed in the same turn.
stopVisualization(W, fires) ==
    LET s == W.refs.source
        a == W.refs.audioContext
        wasPlaying == s # Null /\ W.src[s] = "playing"
    IN  [raf      |-> IF W.refs.animationFrame # 0
                      THEN {c \in W.raf : c.id # W.refs.animationFrame}
                      ELSE W.raf,
         src      |-> IF wasPlaying THEN [W.src EXCEPT ![s] = "stopped"] ELSE W.src,
         endedEv  |-> IF wasPlaying /\ fires THEN W.endedEv \cup {s} ELSE W.endedEv,
         ctx      |-> IF a # Null THEN [W.ctx EXCEPT ![a] = "closed"] ELSE W.ctx,
         refs     |-> [W.refs EXCEPT !.audioContext = Null, !.analyser = Null,
                                     !.source = Null],
         pend     |-> [W.pend EXCEPT !.isPlaying = FALSE, !.isExporting = FALSE],
         lyricIdx |-> -1]

World ==
    [raf |-> raf, src |-> src, endedEv |-> endedEv, ctx |-> ctx, refs |-> refs,
     pend |-> pend, lyricIdx |-> lyricIdx]

\* ---------------------------------------------------------------- commit
\* A render commits the pending state; the effect of lines 793-803 then
\* calls handleResize in the closure of the new render when it runs.
CommittedDims(new, d) ==
    IF EffectRuns(st, new) THEN ResizedDims(new, TRUE, container, d) ELSE d

CommittedCtx(new, c) == IF EffectRuns(st, new) THEN BlankCtx ELSE c

CommittedDrops(new, D, seed) ==
    IF EffectRuns(st, new) THEN ResizedDrops(new, TRUE, container, seed) ELSE D

\* the state after the first render and its effects (handleResize, initWebGL),
\* for a runtime of RT, a container size of CS and a rain seed of SD
InitOf(RT, CS, SD) ==
    /\ mounted = TRUE
    /\ runtime \in RT
    /\ container \in CS
    /\ st = InitialState
    /\ pend = InitialState
    /\ refs = [animationFrame |-> 0, source |-> Null, audioContext |-> Null,
               analyser |-> Null, mediaRecorder |-> Null, gl |-> runtime.webgl]
    /\ dims = ResizedDims(InitialState, TRUE, container,
                          [main |-> <<0, 0>>, gl |-> <<0, 0>>, rain |-> <<0, 0>>])
    /\ \E seed \in SD : drops = ResizedDrops(InitialState, TRUE, container, seed)
    /\ particles = <<>>
    /\ lyricIdx = -1
    /\ decoded = 0
    /\ hue = 0
    /\ elapsed = 0
    /\ n = 0
    /\ inv = [i \in Ids |-> [pc |-> "idle", mode |-> "PLAY",
                             lyrics |-> EmptyLyrics, exportConfig |-> DefaultConfig]]
    /\ ctx = [i \in Ids |-> "none"]
    /\ src = [i \in Ids |-> "none"]
    /\ onended = [i \in Ids |-> FALSE]
    /\ rec = [i \in Ids |-> "none"]
    /\ endedEv = {}
    /\ recEv = {}
    /\ chunks = <<>>
    /\ saved = <<>>
    /\ raf = {}
    /\ rafNext = 1
    /\ frames = 0
    /\ gens = [g \in GenIds |-> "idle"]
    /\ variant = 2
    /\ uniforms = NoSound
    /\ drawn = NothingDrawn
    /\ ctx2d = BlankCtx
    /\ steps = <<>>

\* ------------------------------------------------------------- UI actions
\* Updates made in a click handler are rendered before the next event, so a
\* click action ends with the commit of the pending state.

\* handleFile (lines 1255-1260); the file button is shown while no file is set
handleFile(seed) ==
    /\ PanelShown /\ ~st.file
    /\ LET p == [pend EXCEPT !.file = TRUE, !.lyrics = EmptyLyrics]
         IN  /\ st' = p /\ pend' = p
             /\ dims' = CommittedDims(p, dims) /\ ctx2d' = CommittedCtx(p, ctx2d)
             /\ drops' = CommittedDrops(p, drops, seed)
    /\ UNCHANGED << steps, variant, uniforms, drawn, mounted, runtime, container, refs, particles, lyricIdx, decoded,
                    hue, elapsed, n, inv, ctx, src, onended, rec, endedEv, recEv,
                    chunks, saved, raf, rafNext, frames, gens >>

\* the configuration buttons (lines 1297-1305)
setExportConfig(cfg, seed) ==
    /\ PanelShown /\ st.file
    /\ cfg # pend.exportConfig
    /\ \/ cfg.resolution = pend.exportConfig.resolution
       \/ cfg.aspectRatio = pend.exportConfig.aspectRatio
    /\ LET p == [pend EXCEPT !.exportConfig = cfg]
         IN  /\ st' = p /\ pend' = p
             /\ dims' = CommittedDims(p, dims) /\ ctx2d' = CommittedCtx(p, ctx2d)
             /\ drops' = CommittedDrops(p, drops, seed)
    /\ UNCHANGED << steps, variant, uniforms, drawn, mounted, runtime, container, refs, particles, lyricIdx, decoded,
                    hue, elapsed, n, inv, ctx, src, onended, rec, endedEv, recEv,
                    chunks, saved, raf, rafNext, frames, gens >>

\* the RESET button (line 1329), shown when lyrics.length is not 0
resetLyrics(seed) ==
    /\ PanelShown /\ st.file /\ ~LengthIsZero(st.lyrics)
    /\ LET p == [pend EXCEPT !.lyrics = EmptyLyrics]
         IN  /\ st' = p /\ pend' = p
             /\ dims' = CommittedDims(p, dims) /\ ctx2d' = CommittedCtx(p, ctx2d)
             /\ drops' = CommittedDrops(p, drops, seed)
    /\ UNCHANGED << steps, variant, uniforms, drawn, mounted, runtime, container, refs, particles, lyricIdx, decoded,
                    hue, elapsed, n, inv, ctx, src, onended, rec, endedEv, recEv,
                    chunks, saved, raf, rafNext, frames, gens >>

\* a `resize` event of the window; the listener of line 795 is attached by
\* the effect of a render with isPlaying false and calls that render's
\* handleResize
windowResize(size, seed) ==
    /\ size # container
    /\ container' = size
    /\ IF mounted /\ ~st.isPlaying
       THEN /\ dims' = ResizedDims(st, TRUE, size, dims)
            /\ drops' = ResizedDrops(st, TRUE, size, seed)
            /\ ctx2d' = BlankCtx
       ELSE UNCHANGED << dims, drops, ctx2d >>
    /\ UNCHANGED << steps, variant, uniforms, drawn, mounted, runtime, st, pend, refs, particles, lyricIdx, decoded,
                    hue, elapsed, n, inv, ctx, src, onended, rec, endedEv, recEv,
                    chunks, saved, raf, rafNext, frames, gens >>

\* a render caused by setState calls made outside a click handler (in the
\* continuation of an await, in a media event handler)
render(seed) ==
    /\ mounted /\ pend # st
    /\ st' = pend
    /\ dims' = CommittedDims(pend, dims) /\ ctx2d' = CommittedCtx(pend, ctx2d)
    /\ drops' = CommittedDrops(pend, drops, seed)
    /\ UNCHANGED << steps, variant, uniforms, drawn, mounted, runtime, container, pend, refs, particles, lyricIdx,
                    decoded, hue, elapsed, n, inv, ctx, src, onended, rec, endedEv,
                    recEv, chunks, saved, raf, rafNext, frames, gens >>

\* the ABORT SEQUENCE button (line 1361): stopVisualization
stopClick(fires, seed) ==
    /\ mounted /\ st.isPlaying /\ ~st.isExporting
    /\ \E W \in {stopVisualization(World, fires)} :
             /\ raf' = W.raf /\ src' = W.src /\ endedEv' = W.endedEv /\ ctx' = W.ctx
             /\ refs' = W.refs /\ lyricIdx' = W.lyricIdx
             /\ st' = W.pend /\ pend' = W.pend
             /\ dims' = CommittedDims(W.pend, dims) /\ ctx2d' = CommittedCtx(W.pend, ctx2d)
             /\ drops' = CommittedDrops(W.pend, drops, seed)
    /\ UNCHANGED << steps, variant, uniforms, drawn, mounted, runtime, container, particles, decoded, hue, elapsed, n,
                    inv, onended, rec, recEv, chunks, saved, rafNext, frames, gens >>

\* the cleanup of the effect of lines 741-743 when the component unmounts:
\* stopVisualization; the canvases are gone and no render follows
unmount(fires) ==
    /\ mounted
    /\ mounted' = FALSE
    /\ \E W \in {stopVisualization(World, fires)} :
           /\ raf' = W.raf /\ src' = W.src /\ endedEv' = W.endedEv /\ ctx' = W.ctx
           /\ refs' = W.refs /\ lyricIdx' = W.lyricIdx /\ pend' = W.pend
    /\ UNCHANGED << steps, ctx2d, variant, uniforms, drawn, runtime, container, st, dims, drops, particles, decoded, hue,
                    elapsed, n, inv, onended, rec, recEv, chunks, saved, rafNext,
                    frames, gens >>

\* ------------------------------------------------------- initializeAudio
\* lines 1156-1173: the PREVIEW / RENDER MP4 button, up to the first await.
\* The invocation keeps the closure of the render that created the handler:
\* its lyrics and exportConfig (through renderFrame), its isPlaying and
\* isExporting (through handleResize -> getDimensions).
initializeAudio(mode, fires, seed) ==
    /\ PanelShown /\ st.file
    /\ n < MaxStarts
    /\ \E W \in {stopVisualization(World, fires)} :
       LET i == n + 1
           p == [W.pend EXCEPT !.status = "INITIALIZING CORE..."]
           d1 == ResizedDims(st, TRUE, container, dims)
           D1 == ResizedDrops(st, TRUE, container, seed)
       IN  /\ n' = i
           /\ raf' = W.raf /\ src' = W.src /\ endedEv' = W.endedEv
           /\ refs' = W.refs /\ lyricIdx' = W.lyricIdx
           /\ ctx' = [W.ctx EXCEPT ![i] = "running"]
           /\ inv' = [inv EXCEPT ![i] = [pc |-> "decoding", mode |-> mode,
                                         lyrics |-> st.lyrics,
                                         exportConfig |-> st.exportConfig]]
           /\ st' = p /\ pend' = p
           /\ dims' = CommittedDims(p, d1) /\ ctx2d' = BlankCtx
           /\ drops' = CommittedDrops(p, D1, seed)
    /\ UNCHANGED << steps, variant, uniforms, drawn, mounted, runtime, container, particles, decoded, hue, elapsed,
                    onended, rec, recEv, chunks, saved, rafNext, frames, gens >>

\* decodeFails as it would be with the rejection swallowed: the lines after
\* the decode start a source on the buffer that is not there
decodeFailsStarts(i) ==
    /\ inv[i].pc = "decoding"
    /\ inv' = [inv EXCEPT ![i].pc = "failed"]
    /\ src' = [src EXCEPT ![i] = "playing"]
    /\ refs' = [refs EXCEPT !.audioContext = i, !.analyser = i, !.source = i]
    /\ pend' = [pend EXCEPT !.isPlaying = TRUE]
    /\ UNCHANGED << steps, ctx2d, variant, uniforms, drawn, mounted, runtime, container, st, dims, drops, particles,
                    lyricIdx, decoded, hue, elapsed, n, ctx, onended, rec,
                    endedEv, recEv, chunks, saved, raf, rafNext, frames, gens >>

\* lines 1175-1176 reject: the catch of lines 1249-1252
decodeFails(i) ==
    /\ inv[i].pc = "decoding"
    /\ inv' = [inv EXCEPT ![i].pc = "failed"]
    /\ pend' = [pend EXCEPT !.status = "CORE_FAILURE"]
    /\ UNCHANGED << steps, ctx2d, variant, uniforms, drawn, mounted, runtime, container, st, refs, dims, drops, particles,
                    lyricIdx, decoded, hue, elapsed, n, ctx, src, onended, rec,
                    endedEv, recEv, chunks, saved, raf, rafNext, frames, gens >>

\* new MediaRecorder(stream, options) with the mimeType left by the
\* fallback of lines 1205-1211 throws NotSupportedError when the runtime
\* supports none of the three types
RecorderThrows(mode) == mode = "EXPORT" /\ mounted /\ runtime.mime = "none"

\* a recorder is created and started (lines 1213-1230)
RecorderStarts(mode) == mode = "EXPORT" /\ mounted /\ runtime.mime # "none"

\* lines 1177-1247: the continuation after the decode, to the end of the
\* function.  The first renderFrame call is part of it (line 1241).
decodeDone(i, fr, rnd) ==
    /\ inv[i].pc = "decoding"
    /\ LET mode == inv[i].mode
           cl == inv[i]
           p1 == IF mode = "EXPORT"
                 THEN [pend EXCEPT !.isExporting = TRUE,
                                   !.status = "RENDER_PROTOCOL_ENGAGED..."]
                 ELSE pend
       IN  IF RecorderThrows(mode)
           THEN /\ pend' = [p1 EXCEPT !.status = "CORE_FAILURE"]
                /\ inv' = [inv EXCEPT ![i].pc = "threw"]
                /\ UNCHANGED << refs, rec, chunks, src, onended, elapsed, raf, rafNext,
                                particles, drops, lyricIdx, decoded, hue, uniforms,
                                drawn, ctx2d, steps >>
           ELSE \E r1 \in {[refs EXCEPT !.audioContext = i, !.analyser = i, !.source = i,
                                        !.mediaRecorder =
                                            IF RecorderStarts(mode) THEN i ELSE @]} :
                \E F \in {renderFrame(cl, mounted, r1, 0, fr, rnd, TickState, dims.main)} :
                LET scheduled == F.ran /\ ~F.threw
                IN  /\ rec' = IF RecorderStarts(mode)
                              THEN [rec EXCEPT ![i] = "recording"] ELSE rec
                    /\ chunks' = IF RecorderStarts(mode) THEN <<>> ELSE chunks
                    /\ elapsed' = 0
                    /\ src' = [src EXCEPT ![i] = "playing"]
                    /\ particles' = F.particles /\ drops' = F.drops
                    /\ lyricIdx' = F.lyricIdx /\ decoded' = F.decoded /\ hue' = F.hue
                    /\ uniforms' = F.uniforms /\ drawn' = F.drawn
                    /\ ctx2d' = F.ctx2d /\ steps' = F.steps
                    /\ raf' = IF scheduled THEN raf \cup {[id |-> rafNext, owner |-> i]}
                              ELSE raf
                    /\ rafNext' = IF scheduled THEN rafNext + 1 ELSE rafNext
                    /\ refs' = IF scheduled THEN [r1 EXCEPT !.animationFrame = rafNext]
                               ELSE r1
                    /\ onended' = [onended EXCEPT ![i] = ~F.threw]
                    /\ inv' = [inv EXCEPT ![i].pc = IF F.threw THEN "threw" ELSE "done"]
                    /\ pend' = IF F.threw
                               THEN [p1 EXCEPT !.isPlaying = TRUE, !.status = "CORE_FAILURE"]
                               ELSE [p1 EXCEPT !.isPlaying = TRUE]
    /\ UNCHANGED << variant, mounted, runtime, container, st, dims, n, ctx, endedEv, recEv,
                    saved, frames, gens >>

\* ------------------------------------------------------------- the tick
\* a callback requested at line 1152 runs: renderFrame in the closure of
\* the invocation that started the chain.  The audio clock read at line 955
\* does not go backwards.  limit caps the number of callbacks of a behaviour.
tickWithin(limit, c, t, fr, rnd) ==
    /\ c \in raf
    /\ frames < limit
    /\ t >= elapsed
    /\ \E F \in {renderFrame(inv[c.owner], mounted, refs, t, fr, rnd, TickState, dims.main)} :
       LET scheduled == F.ran /\ ~F.threw
       IN  /\ particles' = F.particles /\ drops' = F.drops
           /\ lyricIdx' = F.lyricIdx /\ decoded' = F.decoded /\ hue' = F.hue
           /\ uniforms' = F.uniforms /\ drawn' = F.drawn
           /\ ctx2d' = F.ctx2d /\ steps' = F.steps
           /\ elapsed' = IF F.ran THEN t ELSE elapsed
           /\ raf' = (raf \ {c}) \cup
                     (IF scheduled THEN {[id |-> rafNext, owner |-> c.owner]} ELSE {})
           /\ rafNext' = IF scheduled THEN rafNext + 1 ELSE rafNext
           /\ refs' = IF scheduled THEN [refs EXCEPT !.animationFrame = rafNext] ELSE refs
    /\ frames' = frames + 1
    /\ UNCHANGED << variant, mounted, runtime, container, st, pend, dims, n, inv, ctx, src,
                    onended, rec, endedEv, recEv, chunks, saved, gens >>

\* the callback in the sessions that look at a few frames
tick(c, t, fr, rnd) == tickWithin(MaxFrames, c, t, fr, rnd)

\* ------------------------------------------------------------ media events
\* source.onended (lines 1243-1247) on [rec, recEv, pend]: the recorder it
\* stops is whatever mediaRecorderRef holds when the event is delivered
sourceOnEnded(R, m) ==
    LET stops == m # Null /\ R.rec[m] = "recording"
    IN  [rec   |-> IF stops THEN [R.rec EXCEPT ![m] = "inactive"] ELSE R.rec,
         recEv |-> IF stops THEN R.recEv \cup {m} ELSE R.recEv,
         pend  |-> [R.pend EXCEPT !.isPlaying = FALSE, !.status = "SEQUENCE_ENDED"]]

Recording == [rec |-> rec, recEv |-> recEv, pend |-> pend]

\* the buffer of a playing source runs out: `ended` is delivered
playbackEnds(i) ==
    /\ src[i] = "playing" /\ ctx[i] = "running"
    /\ src' = [src EXCEPT ![i] = "ended"]
    /\ LET R == IF onended[i] THEN sourceOnEnded(Recording, refs.mediaRecorder)
                ELSE Recording
       IN  rec' = R.rec /\ recEv' = R.recEv /\ pend' = R.pend
    /\ UNCHANGED << steps, ctx2d, variant, uniforms, drawn, mounted, runtime, container, st, refs, dims, drops, particles,
                    lyricIdx, decoded, hue, elapsed, n, inv, ctx, onended, endedEv,
                    chunks, saved, raf, rafNext, frames, gens >>

\* the `ended` event of a source that stopVisualization stopped
stoppedSourceEnded(i) ==
    /\ i \in endedEv
    /\ endedEv' = endedEv \ {i}
    /\ LET R == IF onended[i] THEN sourceOnEnded(Recording, refs.mediaRecorder)
                ELSE Recording
       IN  rec' = R.rec /\ recEv' = R.recEv /\ pend' = R.pend
    /\ UNCHANGED << steps, ctx2d, variant, uniforms, drawn, mounted, runtime, container, st, refs, dims, drops, particles,
                    lyricIdx, decoded, hue, elapsed, n, inv, ctx, src, onended,
                    chunks, saved, raf, rafNext, frames, gens >>

\* the extension of the artifact's file name (line 1223)
Ext(mime) == IF mime = "video/mp4" THEN "mp4" ELSE "webm"

\* rec.ondataavailable then rec.onstop (lines 1217-1229) of a recorder that
\* was stopped: the chunk joins recordedChunksRef, the blob of all chunks
\* held there is downloaded
recorderStopped(m) ==
    /\ m \in recEv
    /\ recEv' = recEv \ {m}
    /\ chunks' = Append(chunks, m)
    /\ saved' = Append(saved, [rec |-> m, blob |-> Append(chunks, m),
                               resolution |-> inv[m].exportConfig.resolution,
                               ext |-> Ext(runtime.mime)])
    /\ pend' = [pend EXCEPT !.isExporting = FALSE, !.status = "RENDER_COMPLETE",
                            !.isPlaying = FALSE]
    /\ UNCHANGED << steps, ctx2d, variant, uniforms, drawn, mounted, runtime, container, st, refs, dims, drops, particles,
                    lyricIdx, decoded, hue, elapsed, n, inv, ctx, src, onended, rec,
                    endedEv, raf, rafNext, frames, gens >>

\* --------------------------------------------------------- generateLyrics
\* what JSON.parse may return for the collaborator's text
ResponseValues ==
    { EmptyLyrics,
      Arr(<< Line(0, 1, <<"a", "b">>, TRUE),
             LineNoDuration(1, <<"x", "y", "z">>, FALSE),
             Line(1, 2, <<"w">>, FALSE) >>),
      Arr(<< Line(0, 0, <<"q">>, FALSE) >>),
      Arr(<< NoTextLine(0) >>),
      NotAnArray }

\* the GENERATE SYNCED LYRICS button (lines 1319-1325), up to the first await
generateLyrics(g, seed) ==
    /\ PanelShown /\ st.file /\ LengthIsZero(st.lyrics) /\ ~st.isAnalyzing
    /\ gens[g] = "idle" /\ \A h \in 1..(g - 1) : gens[h] # "idle"
    /\ IF runtime.apiKey
       THEN /\ gens' = [gens EXCEPT ![g] = "waiting"]
            /\ LET p == [pend EXCEPT !.isAnalyzing = TRUE,
                                       !.status = "NEURAL_SYNC_IN_PROGRESS..."]
                 IN  /\ st' = p /\ pend' = p
                     /\ dims' = CommittedDims(p, dims) /\ ctx2d' = CommittedCtx(p, ctx2d)
                     /\ drops' = CommittedDrops(p, drops, seed)
       ELSE /\ gens' = [gens EXCEPT ![g] = "done"]
            /\ UNCHANGED << st, pend, dims, drops, ctx2d >>
    /\ UNCHANGED << steps, variant, uniforms, drawn, mounted, runtime, container, refs, particles, lyricIdx, decoded,
                    hue, elapsed, n, inv, ctx, src, onended, rec, endedEv, recEv,
                    chunks, saved, raf, rafNext, frames >>

\* lines 850-853: the response parsed, whatever it parsed to
lyricsParsed(g, value) ==
    /\ gens[g] = "waiting"
    /\ gens' = [gens EXCEPT ![g] = "done"]
    /\ pend' = [pend EXCEPT !.lyrics = value, !.status = "DATA_SYNCED",
                            !.isAnalyzing = FALSE]
    /\ UNCHANGED << steps, ctx2d, variant, uniforms, drawn, mounted, runtime, container, st, refs, dims, drops, particles,
                    lyricIdx, decoded, hue, elapsed, n, inv, ctx, src, onended, rec,
                    endedEv, recEv, chunks, saved, raf, rafNext, frames >>

\* lines 855-875: the request or JSON.parse threw.  auth: the error says
\* "Requested entity was not found"
lyricsFailed(g, auth) ==
    /\ gens[g] = "waiting"
    /\ IF auth /\ runtime.aistudio
       THEN /\ gens' = [gens EXCEPT ![g] = "keyvault"]
            /\ pend' = [pend EXCEPT !.status = "OPENING_SECURE_KEY_VAULT..."]
       ELSE /\ gens' = [gens EXCEPT ![g] = "done"]
            /\ pend' = [pend EXCEPT !.lyrics = EmptyLyrics, !.isAnalyzing = FALSE,
                                    !.status = IF auth THEN "API_ACCESS_ERROR"
                                               ELSE "AI_FAILED_MANUAL_OVERRIDE_REQUIRED"]
    /\ UNCHANGED << steps, ctx2d, variant, uniforms, drawn, mounted, runtime, container, st, refs, dims, drops, particles,
                    lyricIdx, decoded, hue, elapsed, n, inv, ctx, src, onended, rec,
                    endedEv, recEv, chunks, saved, raf, rafNext, frames >>

\* lines 862-874: window.aistudio.openSelectKey() settled
keySelected(g, ok) ==
    /\ gens[g] = "keyvault"
    /\ gens' = [gens EXCEPT ![g] = "done"]
    /\ pend' = [pend EXCEPT !.lyrics = EmptyLyrics, !.isAnalyzing = FALSE,
                            !.status = IF ok THEN "KEY_UPDATED_RETRY_GENERATION"
                                       ELSE "KEY_SELECTION_FAILED"]
    /\ UNCHANGED << steps, ctx2d, variant, uniforms, drawn, mounted, runtime, container, st, refs, dims, drops, particles,
                    lyricIdx, decoded, hue, elapsed, n, inv, ctx, src, onended, rec,
                    endedEv, recEv, chunks, saved, raf, rafNext, frames >>

\* ------------------------------------------------------ the first component
\* The file holds two components named Visualizer; the definitions above are
\* those of the second (lines 633-1368), the ones below those of the first
\* (lines 82-516), kept apart by the suffix 1.  The first has no lyrics, no
\* rain, no hue and no export configuration: the variables of those stay as
\* they are.

\* lines 262-276: push floor(bass * 5) rectangles when bass > 0.7
SpawnCount1(bassSum) ==
    IF BassOver(bassSum, 7, 10) THEN (bassSum * SpawnK1) \div (BassBins * ByteMax) ELSE 0

Spawn1(P, bassSum, x, vx) == Push(P, SpawnCount1(bassSum), RectParticle(x, vx))

\* lines 279-293: for (i = length - 1; i >= 0; i--), here with i 1-based
RECURSIVE AdvanceFrom1(_, _)
AdvanceFrom1(P, i) ==
    IF i < 1 THEN P
    ELSE LET p == [P[i] EXCEPT !.x = @ + P[i].vx, !.life = @ - DecayStep1]
         IN  IF p.life <= 0
             THEN AdvanceFrom1(Splice(P, i), i - 1)
             ELSE AdvanceFrom1([P EXCEPT ![i] = p], i - 1)

Advance1(P) == AdvanceFrom1(P, Len(P))

\* line 220: if (!canvas || !glCanvas || !gl || !analyser) return
HandleMissing1(hasCanvas, r) == ~hasCanvas \/ ~r.gl \/ r.analyser = Null

\* renderFrame (lines 214-371): the guard of line 220 reads the canvases,
\* glRef and analyserRef; nothing in the function throws
renderFrame1(hasCanvas, r, fr, rnd, ts) ==
    IF HandleMissing1(hasCanvas, r)
    THEN [ts EXCEPT !.ran = FALSE, !.threw = FALSE]
    ELSE [ts EXCEPT !.ran = TRUE, !.threw = FALSE,
                    !.uniforms = BandsOf[fr],
                    !.particles = Advance1(Spawn1(@, BandsOf[fr].bass, rnd.x, rnd.vx))]

\* the state after the first render and its effect (lines 205-211):
\* handleResize gives both canvases the size of the container
Init1Of(RT, CS) ==
    /\ mounted = TRUE
    /\ runtime \in RT
    /\ container \in CS
    /\ st = InitialState
    /\ pend = InitialState
    /\ refs = [animationFrame |-> 0, source |-> Null, audioContext |-> Null,
               analyser |-> Null, mediaRecorder |-> Null, gl |-> runtime.webgl]
    /\ dims = [main |-> container, gl |-> container, rain |-> <<0, 0>>]
    /\ drops = <<>>
    /\ particles = <<>>
    /\ lyricIdx = -1
    /\ decoded = 0
    /\ hue = 0
    /\ elapsed = 0
    /\ n = 0
    /\ inv = [i \in Ids |-> [pc |-> "idle", mode |-> "PLAY",
                             lyrics |-> EmptyLyrics, exportConfig |-> DefaultConfig]]
    /\ ctx = [i \in Ids |-> "none"]
    /\ src = [i \in Ids |-> "none"]
    /\ onended = [i \in Ids |-> FALSE]
    /\ rec = [i \in Ids |-> "none"]
    /\ endedEv = {}
    /\ recEv = {}
    /\ chunks = <<>>
    /\ saved = <<>>
    /\ raf = {}
    /\ rafNext = 1
    /\ frames = 0
    /\ gens = [g \in GenIds |-> "idle"]
    /\ variant = 1
    /\ uniforms = NoSound
    /\ drawn = NothingDrawn
    /\ ctx2d = BlankCtx
    /\ steps = <<>>

\* handleFile (lines 456-458); INITIALIZE FILE is shown while no file is set
handleFile1 ==
    /\ PanelShown /\ ~st.file
    /\ LET p == [pend EXCEPT !.file = TRUE]
       IN  st' = p /\ pend' = p
    /\ UNCHANGED << steps, ctx2d, variant, uniforms, drawn, mounted, runtime, container, refs, dims,
                    drops, particles, lyricIdx, decoded, hue, elapsed, n, inv, ctx, src,
                    onended, rec, endedEv, recEv, chunks, saved, raf, rafNext, frames,
                    gens >>

\* React renders the pending state; the effect of lines 205-211 has stable
\* dependencies and does not run again
render1 ==
    /\ mounted /\ pend # st
    /\ st' = pend
    /\ UNCHANGED << steps, ctx2d, variant, uniforms, drawn, mounted, runtime, container, pend, refs,
                    dims, drops, particles, lyricIdx, decoded, hue, elapsed, n, inv, ctx,
                    src, onended, rec, endedEv, recEv, chunks, saved, raf, rafNext,
                    frames, gens >>

\* initializeAudio (lines 374-383), to the first await: stopVisualization
\* (lines 174-187, which leaves the other refs alone), initWebGL, a new
\* context and analyser, the status
initializeAudio1(mode, fires) ==
    /\ PanelShown /\ st.file
    /\ n < MaxStarts
    /\ \E W \in {stopVisualization(World, fires)} :
       LET i == n + 1
           p == [W.pend EXCEPT !.status = "DECODING_CORE..."]
       IN  /\ n' = i
           /\ raf' = W.raf /\ src' = W.src /\ endedEv' = W.endedEv
           /\ refs' = W.refs
           /\ ctx' = [W.ctx EXCEPT ![i] = "running"]
           /\ inv' = [inv EXCEPT ![i].pc = "decoding", ![i].mode = mode]
           /\ st' = p /\ pend' = p
    /\ UNCHANGED << steps, ctx2d, variant, uniforms, drawn, mounted, runtime, container, dims, drops,
                    particles, lyricIdx, decoded, hue, elapsed, onended, rec, recEv,
                    chunks, saved, rafNext, frames, gens >>

\* the TERMINATE button (line 507), shown while playing and not exporting:
\* stopVisualization
stopClick1(fires) ==
    /\ mounted /\ st.isPlaying /\ ~st.isExporting
    /\ \E W \in {stopVisualization(World, fires)} :
           /\ raf' = W.raf /\ src' = W.src /\ endedEv' = W.endedEv /\ ctx' = W.ctx
           /\ refs' = W.refs
           /\ st' = W.pend /\ pend' = W.pend
    /\ UNCHANGED << steps, ctx2d, variant, uniforms, drawn, mounted, runtime, container,
                    dims, drops, particles, lyricIdx, decoded, hue, elapsed, n, inv,
                    onended, rec, recEv, chunks, saved, rafNext, frames, gens >>

\* lines 385-446: the continuation after the decode.  Without a supported
\* recording format an export returns at line 411, before source.start.
decodeDone1(i, fr, rnd) ==
    /\ inv[i].pc = "decoding"
    /\ LET mode == inv[i].mode
           records == mode = "EXPORT" /\ mounted
           p1 == IF mode = "EXPORT"
                 THEN [pend EXCEPT !.isExporting = TRUE,
                                   !.status = IF records THEN "RECORDING..."
                                              ELSE "INIT_RECORDER..."]
                 ELSE [pend EXCEPT !.status = "VISUAL_CORE_ONLINE"]
       IN  IF records /\ runtime.mime = "none"
           THEN /\ pend' = [p1 EXCEPT !.status = "INIT_RECORDER..."]
                /\ inv' = [inv EXCEPT ![i].pc = "done"]
                /\ UNCHANGED << refs, rec, chunks, src, onended, raf, rafNext,
                                particles, uniforms >>
           ELSE \E r1 \in {[refs EXCEPT !.audioContext = i, !.analyser = i, !.source = i,
                                        !.mediaRecorder = IF records THEN i ELSE @]} :
                \E F \in {renderFrame1(mounted, r1, fr, rnd, TickState)} :
                /\ rec' = IF records THEN [rec EXCEPT ![i] = "recording"] ELSE rec
                /\ chunks' = IF records THEN <<>> ELSE chunks
                /\ src' = [src EXCEPT ![i] = "playing"]
                /\ particles' = F.particles /\ uniforms' = F.uniforms
                /\ raf' = IF F.ran THEN raf \cup {[id |-> rafNext, owner |-> i]} ELSE raf
                /\ rafNext' = IF F.ran THEN rafNext + 1 ELSE rafNext
                /\ refs' = IF F.ran THEN [r1 EXCEPT !.animationFrame = rafNext] ELSE r1
                /\ onended' = [onended EXCEPT ![i] = TRUE]
                /\ inv' = [inv EXCEPT ![i].pc = "done"]
                /\ pend' = [p1 EXCEPT !.isPlaying = TRUE]
    /\ UNCHANGED << steps, ctx2d, variant, drawn, mounted, runtime, container, st, dims, drops,
                    lyricIdx, decoded, hue, elapsed, n, ctx, endedEv, recEv, saved,
                    frames, gens >>

\* a callback requested at line 370 runs
tickWithin1(limit, c, fr, rnd) ==
    /\ c \in raf
    /\ frames < limit
    /\ \E F \in {renderFrame1(mounted, refs, fr, rnd, TickState)} :
       /\ particles' = F.particles /\ uniforms' = F.uniforms
       /\ raf' = (raf \ {c}) \cup
                 (IF F.ran THEN {[id |-> rafNext, owner |-> c.owner]} ELSE {})
       /\ rafNext' = IF F.ran THEN rafNext + 1 ELSE rafNext
       /\ refs' = IF F.ran THEN [refs EXCEPT !.animationFrame = rafNext] ELSE refs
    /\ frames' = frames + 1
    /\ UNCHANGED << steps, ctx2d, variant, drawn, mounted, runtime, container, st, pend, dims, drops,
                    lyricIdx, decoded, hue, elapsed, n, inv, ctx, src, onended, rec,
                    endedEv, recEv, chunks, saved, gens >>

\* ------------------------------------------------------------------ Next
Times == 0..MaxTime

Modes == {"PLAY", "EXPORT"}

\* the draws and frames offered where the rain and the particles are not
\* what is looked at
PlainDraws == [reset : {"none"}, emoji : {TRUE}, x : {0}, vx : {1}]

PlainFrames == {"silent", "bassOnly"}

PlainSeeds == {-50}

SmallContainer == <<640, 360>>

\* The session: starts, decodes, ticks, stops, ends, recordings.
Next ==
    \/ \E seed \in PlainSeeds : handleFile(seed)
    \/ \E seed \in PlainSeeds : render(seed)
    \/ \E fires \in BOOLEAN, seed \in PlainSeeds : stopClick(fires, seed)
    \/ \E fires \in BOOLEAN : unmount(fires)
    \/ \E mode \in Modes, fires \in BOOLEAN, seed \in PlainSeeds :
          initializeAudio(mode, fires, seed)
    \/ \E i \in Ids : decodeFails(i)
    \/ \E i \in Ids, fr \in PlainFrames, rnd \in PlainDraws : decodeDone(i, fr, rnd)
    \/ \E c \in raf, t \in Times, fr \in PlainFrames, rnd \in PlainDraws :
          tick(c, t, fr, rnd)
    \/ \E i \in Ids : playbackEnds(i)
    \/ \E i \in Ids : stoppedSourceEnded(i)
    \/ \E m \in Ids : recorderStopped(m)

Init == InitOf(Runtimes, {SmallContainer}, PlainSeeds)

Spec == Init /\ [][Next]_vars

\* The session with the transcription collaborator: preview runs only.
LyricRuntimes == {rt \in Runtimes : rt.apiKey}

NextLyrics ==
    \/ \E seed \in PlainSeeds : handleFile(seed)
    \/ \E seed \in PlainSeeds : resetLyrics(seed)
    \/ \E seed \in PlainSeeds : render(seed)
    \/ \E fires \in BOOLEAN, seed \in PlainSeeds : stopClick(fires, seed)
    \/ \E fires \in BOOLEAN, seed \in PlainSeeds : initializeAudio("PLAY", fires, seed)
    \/ \E i \in Ids, rnd \in PlainDraws : decodeDone(i, "silent", rnd)
    \/ \E c \in raf, t \in Times, rnd \in PlainDraws : tick(c, t, "silent", rnd)
    \/ \E i \in Ids : playbackEnds(i)
    \/ \E i \in Ids : stoppedSourceEnded(i)
    \/ \E g \in GenIds, seed \in PlainSeeds : generateLyrics(g, seed)
    \/ \E g \in GenIds, value \in ResponseValues : lyricsParsed(g, value)
    \/ \E g \in GenIds, auth \in BOOLEAN : lyricsFailed(g, auth)
    \/ \E g \in GenIds, ok \in BOOLEAN : keySelected(g, ok)

InitLyrics == InitOf(LyricRuntimes, {SmallContainer}, PlainSeeds)

SpecLyrics == InitLyrics /\ [][NextLyrics]_vars

\* The session with the configuration panel and window resizes.
ResizeRuntimes == {rt \in Runtimes : rt.webgl /\ rt.mime = "video/mp4"}

ResizeConfigs == {cfg \in Configs : cfg.aspectRatio = "16:9"}

NextResize ==
    \/ \E seed \in PlainSeeds : handleFile(seed)
    \/ \E cfg \in ResizeConfigs, seed \in PlainSeeds : setExportConfig(cfg, seed)
    \/ \E size \in ContainerSizes, seed \in PlainSeeds : windowResize(size, seed)
    \/ \E seed \in PlainSeeds : render(seed)
    \/ \E seed \in PlainSeeds : stopClick(FALSE, seed)
    \/ \E mode \in Modes, seed \in PlainSeeds : initializeAudio(mode, FALSE, seed)
    \/ \E i \in Ids, rnd \in PlainDraws : decodeDone(i, "silent", rnd)
    \/ \E c \in raf, rnd \in PlainDraws : tick(c, elapsed, "silent", rnd)
    \/ \E i \in Ids : playbackEnds(i)
    \/ \E m \in Ids : recorderStopped(m)

InitResize == InitOf(ResizeRuntimes, ContainerSizes, PlainSeeds)

SpecResize == InitResize /\ [][NextResize]_vars

\* One run with every configuration of the panel and window resizes.
NextDims ==
    \/ \E seed \in PlainSeeds : handleFile(seed)
    \/ \E cfg \in Configs, seed \in PlainSeeds : setExportConfig(cfg, seed)
    \/ \E size \in ContainerSizes, seed \in PlainSeeds : windowResize(size, seed)
    \/ \E seed \in PlainSeeds : render(seed)
    \/ \E seed \in PlainSeeds : stopClick(FALSE, seed)
    \/ \E mode \in Modes, seed \in PlainSeeds : n = 0 /\ initializeAudio(mode, FALSE, seed)
    \/ \E i \in Ids, rnd \in PlainDraws : decodeDone(i, "silent", rnd)
    \/ \E c \in raf, rnd \in PlainDraws : tick(c, elapsed, "silent", rnd)
    \/ \E i \in Ids : playbackEnds(i)
    \/ \E m \in Ids : recorderStopped(m)

InitDims == InitOf(ResizeRuntimes, ContainerSizes, PlainSeeds)

SpecDims == InitDims /\ [][NextDims]_vars

\* The session of the particle pool, for either component: one preview run
\* that hears sound and may draw emoji in its first callbacks, and hears
\* silence and draws none afterwards, long enough for every particle to
\* expire.  The second component may have a line with an emoji to show.
ParticleDraws == [reset : {"none"}, emoji : BOOLEAN, x : {0}, vx : {1}]

QuietDraws == {rnd \in ParticleDraws : ~rnd.emoji}

DrawsAt(k) == IF k < MaxSpawnFrames THEN ParticleDraws ELSE QuietDraws

ParticleLyrics == {Arr(<< Line(0, 1, <<"a", "b">>, TRUE) >>)}

ParticleRuntimes == {rt \in Runtimes : rt.webgl /\ rt.aistudio}

HeardAt(k) == IF k < MaxSpawnFrames THEN FrameNames ELSE {"silent"}

MaxDecayFrames == MaxSpawnFrames + QuietFrames

NextParticles ==
    \/ variant = 2 /\ \E seed \in PlainSeeds : handleFile(seed)
    \/ variant = 2 /\ \E seed \in PlainSeeds : render(seed)
    \/ variant = 2 /\ n = 0 /\ \E seed \in PlainSeeds : initializeAudio("PLAY", FALSE, seed)
    \/ variant = 2 /\ \E i \in Ids, fr \in FrameNames, rnd \in ParticleDraws :
                         decodeDone(i, fr, rnd)
    \/ variant = 2 /\ \E c \in raf, fr \in HeardAt(frames), rnd \in DrawsAt(frames) :
                         tickWithin(MaxDecayFrames, c, elapsed, fr, rnd)
    \/ variant = 2 /\ n = 0 /\ \E g \in GenIds, seed \in PlainSeeds : generateLyrics(g, seed)
    \/ variant = 2 /\ n = 0 /\ \E g \in GenIds, value \in ParticleLyrics :
                                  lyricsParsed(g, value)
    \/ variant = 1 /\ handleFile1
    \/ variant = 1 /\ render1
    \/ variant = 1 /\ n = 0 /\ initializeAudio1("PLAY", FALSE)
    \/ variant = 1 /\ \E i \in Ids, fr \in FrameNames, rnd \in QuietDraws :
                         decodeDone1(i, fr, rnd)
    \/ variant = 1 /\ \E c \in raf, fr \in HeardAt(frames), rnd \in QuietDraws :
                         tickWithin1(MaxDecayFrames, c, fr, rnd)

InitParticles ==
    \/ InitOf(ParticleRuntimes, {SmallContainer}, PlainSeeds)
    \/ Init1Of(ParticleRuntimes, {SmallContainer})

SpecParticles == InitParticles /\ [][NextParticles]_vars

\* The session in which the steps of the ticks are looked at: preview runs
\* on silent and on loud frames, with a stored sequence that has a line with
\* a text or one without.
OrderLyrics == {Arr(<< Line(0, 1, <<"a", "b">>, FALSE) >>), Arr(<< NoTextLine(0) >>)}

NextOrder ==
    \/ \E seed \in PlainSeeds : handleFile(seed)
    \/ \E seed \in PlainSeeds : resetLyrics(seed)
    \/ \E seed \in PlainSeeds : render(seed)
    \/ \E seed \in PlainSeeds : stopClick(FALSE, seed)
    \/ \E seed \in PlainSeeds : initializeAudio("PLAY", FALSE, seed)
    \/ \E i \in Ids, fr \in PlainFrames, rnd \in PlainDraws : decodeDone(i, fr, rnd)
    \/ \E c \in raf, fr \in PlainFrames, rnd \in PlainDraws : tick(c, elapsed, fr, rnd)
    \/ \E i \in Ids : playbackEnds(i)
    \/ \E g \in GenIds, seed \in PlainSeeds : generateLyrics(g, seed)
    \/ \E g \in GenIds, value \in OrderLyrics : lyricsParsed(g, value)

InitOrder == InitOf(ParticleRuntimes, {SmallContainer}, PlainSeeds)

SpecOrder == InitOrder /\ [][NextOrder]_vars

\* The session in which ticks find a handle missing, for either component:
\* a platform with or without WebGL, two starts, stop and (second component)
\* unmount.
GuardRuntimes == {rt \in Runtimes : rt.mime = "video/mp4"}

NextGuard ==
    \/ variant = 2 /\ \E seed \in PlainSeeds : handleFile(seed)
    \/ variant = 2 /\ \E seed \in PlainSeeds : render(seed)
    \/ variant = 2 /\ \E seed \in PlainSeeds : stopClick(FALSE, seed)
    \/ variant = 2 /\ unmount(FALSE)
    \/ variant = 2 /\ \E seed \in PlainSeeds : initializeAudio("PLAY", FALSE, seed)
    \/ variant = 2 /\ \E i \in Ids, fr \in PlainFrames, rnd \in PlainDraws :
                         decodeDone(i, fr, rnd)
    \/ variant = 2 /\ \E c \in raf, fr \in PlainFrames, rnd \in PlainDraws :
                         tick(c, elapsed, fr, rnd)
    \/ variant = 1 /\ handleFile1
    \/ variant = 1 /\ render1
    \/ variant = 1 /\ stopClick1(FALSE)
    \/ variant = 1 /\ initializeAudio1("PLAY", FALSE)
    \/ variant = 1 /\ \E i \in Ids, fr \in PlainFrames, rnd \in PlainDraws :
                         decodeDone1(i, fr, rnd)
    \/ variant = 1 /\ \E c \in raf, fr \in PlainFrames, rnd \in PlainDraws :
                         tickWithin1(MaxFrames, c, fr, rnd)

InitGuard ==
    \/ InitOf(GuardRuntimes, {SmallContainer}, PlainSeeds)
    \/ Init1Of(GuardRuntimes, {SmallContainer})

SpecGuard == InitGuard /\ [][NextGuard]_vars

\* The session of the full particle pool (second component): one preview
\* run over a line with an emoji; after the first callbacks every frame has
\* bass 1.0 and every tick draws the emoji, for longer than a particle lives.
LoudAt(k) == IF k < MaxSpawnFrames THEN FrameNames ELSE {"bassOnly"}

FloodDrawsAt(k) ==
    IF k < MaxSpawnFrames THEN ParticleDraws ELSE {rnd \in ParticleDraws : rnd.emoji}

NextFlood ==
    \/ \E seed \in PlainSeeds : handleFile(seed)
    \/ \E seed \in PlainSeeds : render(seed)
    \/ n = 0 /\ \E g \in GenIds, seed \in PlainSeeds : generateLyrics(g, seed)
    \/ n = 0 /\ \E g \in GenIds, value \in ParticleLyrics : lyricsParsed(g, value)
    \/ n = 0 /\ \E seed \in PlainSeeds : initializeAudio("PLAY", FALSE, seed)
    \/ \E i \in Ids, fr \in FrameNames, rnd \in ParticleDraws : decodeDone(i, fr, rnd)
    \/ \E c \in raf, fr \in LoudAt(frames), rnd \in FloodDrawsAt(frames) :
          tickWithin(MaxDecayFrames, c, elapsed, fr, rnd)

InitFlood == InitOf(ParticleRuntimes, {SmallContainer}, PlainSeeds)

SpecFlood == InitFlood /\ [][NextFlood]_vars

\* ================================================================ claims
\* a step in which stopVisualization runs as the whole or the first part of
\* a handler: the ABORT button, the unmount cleanup, a start
StopStep ==
    \E fires \in BOOLEAN, seed \in PlainSeeds :
        \/ stopClick(fires, seed)
        \/ unmount(fires)
        \/ \E mode \in Modes : initializeAudio(mode, fires, seed)

\* a step that is stop() and nothing else
StopOnly ==
    \E fires \in BOOLEAN, seed \in PlainSeeds : stopClick(fires, seed) \/ unmount(fires)

\* the artifacts saved for the recorder of run m
SavedFor(m) == {k \in 1..Len(saved) : saved[k].rec = m}

\* C1: a stop while a recording is in progress finalizes the recording: the
\* recorder that was recording is stopped by the stop step, its one
\* artifact-save is on its way, and no recorder is recording after the step.
C1_StopFinalizesRecording ==
    [][StopStep =>
         \A m \in Ids :
            /\ rec'[m] # "recording"
            /\ rec[m] = "recording" => (rec'[m] = "inactive" /\ m \in recEv')]_vars

\* C2: after a stop step no tick is scheduled, and a tick that still runs
\* before the next start leaves the tick state as it is.
C2_NoTickAfterStop ==
    [][/\ StopStep => raf' = {}
       /\ \A c \in raf, t \in Times, fr \in PlainFrames, rnd \in PlainDraws :
             (tick(c, t, fr, rnd) /\ refs.analyser = Null) =>
                UNCHANGED << particles, drops, lyricIdx, decoded, hue, elapsed >>]_vars

\* the runs whose source is playing, and those whose recorder is recording
PlayingRuns == {i \in Ids : src[i] = "playing"}

RecordingRuns == {i \in Ids : rec[i] = "recording"}

\* C3: at most one session at a time: one playing source, one pending tick
\* callback, one recording recorder, and the handles the component holds are
\* those of the run that is playing.
C3_OneSession ==
    /\ Cardinality(PlayingRuns) <= 1
    /\ Cardinality(raf) <= 1
    /\ Cardinality(RecordingRuns) <= 1
    /\ \A i \in PlayingRuns : refs.source = i /\ refs.analyser = i

\* the dimensions the resolver gives for run i while it is running
RunDims(i) ==
    getDimensions([st EXCEPT !.isPlaying = TRUE,
                             !.isExporting = (inv[i].mode = "EXPORT"),
                             !.exportConfig = inv[i].exportConfig],
                  TRUE, container)

\* the three surfaces have the size wh and the rain has the columns of it
SurfacesAt(wh, cfg) ==
    /\ dims.main = wh /\ dims.gl = wh /\ dims.rain = wh
    /\ Len(drops) = CeilDiv(wh[1], FontSize(cfg))

\* C4: when a run starts (capture begins, the source starts, the first tick
\* runs) the three surfaces already have the run's resolved dimensions and
\* the rain is seeded for them, and every later tick of the run finds them
\* so.
C4_DimsBeforeFirstTick ==
    [][/\ \A i \in Ids, rnd \in PlainDraws :
             (decodeDone(i, "silent", rnd) /\ src'[i] = "playing") =>
                SurfacesAt(RunDims(i), inv[i].exportConfig)
       /\ \A c \in raf, rnd \in PlainDraws :
             (tick(c, elapsed, "silent", rnd) /\ src[c.owner] = "playing"
                /\ refs.analyser = c.owner) =>
                SurfacesAt(RunDims(c.owner), inv[c.owner].exportConfig)]_vars

\* the guard of a tick lets it through
GuardPasses == mounted /\ refs.gl /\ refs.analyser # Null /\ refs.audioContext # Null

\* the lyric sequence lyr has a line to show at time t
HasLineAt(lyr, t) == lyr.isArray /\ FindLine(lyr.lines, t) # 0

\* C5: once a transcription result is stored and rendered, every tick that
\* runs selects the active line from the stored sequence.
C5_TicksAdoptLyrics ==
    [][\A c \in raf, t \in Times, rnd \in PlainDraws :
          (/\ tick(c, t, "silent", rnd)
           /\ GuardPasses
           /\ st.lyrics = pend.lyrics
           /\ HasLineAt(st.lyrics, t)) =>
             lyricIdx' = FindLine(st.lyrics.lines, t) - 1]_vars

\* a parsed response that is not a sequence of lines with a text
Malformed(value) ==
    \/ ~value.isArray
    \/ \E k \in 1..Len(value.lines) : ~value.lines[k].hasText

\* C6: a malformed response leaves the lyric sequence empty, and no tick
\* faults: a tick that passes its guard runs to its end and requests the
\* next one, the first tick of a run included.
C6_MalformedResponseEmpty ==
    [][/\ \A g \in GenIds, value \in ResponseValues :
             (lyricsParsed(g, value) /\ Malformed(value)) =>
                pend'.lyrics = EmptyLyrics
       /\ \A c \in raf, t \in Times, rnd \in PlainDraws :
             (tick(c, t, "silent", rnd) /\ GuardPasses) =>
                \E cb \in raf' : cb.id = rafNext /\ cb.owner = c.owner
       /\ \A i \in Ids, rnd \in PlainDraws :
             decodeDone(i, "silent", rnd) => inv'[i].pc # "threw"]_vars

\* C7: an export run on a runtime without a supported recording format
\* creates and starts no recorder, and its playback proceeds: the source is
\* started and the render loop runs.
C7_NoFormatPlaybackProceeds ==
    [][\A i \in Ids, fr \in PlainFrames, rnd \in PlainDraws :
          (/\ decodeDone(i, fr, rnd)
           /\ inv[i].mode = "EXPORT" /\ mounted /\ runtime.mime = "none") =>
             /\ rec'[i] = "none" /\ refs'.mediaRecorder = refs.mediaRecorder
             /\ src'[i] = "playing"
             /\ pend'.isPlaying
             /\ (refs.gl => \E cb \in raf' : cb.owner = i)]_vars

\* C8: when the playback of an export run ends naturally its recorder is
\* stopped by the end-of-playback handler, and the finalization of a
\* recorder saves the one artifact of its run and leaves the system neither
\* exporting nor playing.
C8_NaturalEndFinalizes ==
    [][/\ \A i \in Ids :
             (playbackEnds(i) /\ rec[i] = "recording") =>
                (rec'[i] = "inactive" /\ i \in recEv')
       /\ \A m \in Ids :
             recorderStopped(m) =>
                /\ Cardinality(SavedFor(m)') = 1
                /\ ~pend'.isExporting /\ ~pend'.isPlaying]_vars

\* the runs whose decode failed
FailedRuns == {i \in Ids : inv[i].pc = "failed"}

\* C9: a run whose decode failed has no source, no recorder and no tick
\* callback, is held by none of the component's handles and has no
\* end-of-playback handler; when every start so far has failed the status is
\* the decode-failed one and the component is neither playing nor exporting.
C9_DecodeFailureStartsNothing ==
    /\ \A i \in FailedRuns :
          /\ src[i] = "none" /\ rec[i] = "none" /\ ~onended[i]
          /\ \A c \in raf : c.owner # i
          /\ refs.source # i /\ refs.analyser # i /\ refs.audioContext # i
          /\ refs.mediaRecorder # i
    /\ (n >= 1 /\ FailedRuns = 1..n) =>
          /\ pend.status = "CORE_FAILURE"
          /\ ~pend.isPlaying /\ ~pend.isExporting
          /\ raf = {} /\ PlayingRuns = {} /\ RecordingRuns = {}

\* C9's case: the decode of every start made has failed, of two starts
C9_Witness == n = MaxStarts /\ FailedRuns = 1..n /\ pend.status = "CORE_FAILURE"

\* C10: a stop called in any state leaves no tick pending, no source
\* playing, the source handle detached and the component not playing, and
\* a second stop changes nothing of what the first one left.
C10_StopIdempotentSafe ==
    [][StopOnly =>
          /\ raf' = {} /\ PlayingRuns' = {}
          /\ refs'.source = Null /\ ~pend'.isPlaying
          /\ \A f \in BOOLEAN : stopVisualization(World', f) = World']_vars

\* the size of the capture for a configuration, as the specification
\* tabulates it
CaptureSize(cfg) ==
    CASE cfg.resolution = "1080p" /\ cfg.aspectRatio = "16:9" -> <<1920, 1080>>
      [] cfg.resolution = "1080p" /\ cfg.aspectRatio = "9:16" -> <<1080, 1920>>
      [] cfg.resolution = "4K" /\ cfg.aspectRatio = "16:9" -> <<3840, 2160>>
      [] cfg.resolution = "4K" /\ cfg.aspectRatio = "9:16" -> <<2160, 3840>>

\* C11: while the component is exporting, the resolver gives the size
\* tabulated for the configuration, whatever the size of the container, and
\* the surfaces of the rendered component have that size.
C11_CaptureSizes ==
    st.isExporting =>
       /\ getDimensions(st, mounted, container) = CaptureSize(st.exportConfig)
       /\ SurfacesAt(CaptureSize(st.exportConfig), st.exportConfig)

\* C11's case: a 4K portrait export in a container of 640x360
C11_Witness ==
    /\ st.isExporting /\ st.isPlaying
    /\ st.exportConfig = [resolution |-> "4K", aspectRatio |-> "9:16"]
    /\ container = SmallContainer
    /\ dims.main = <<2160, 3840>>

\* C12: while the component is not exporting, a preview run in progress
\* included, the resolver gives the size of the container.
C12_PreviewUsesContainer ==
    (mounted /\ ~st.isExporting) => getDimensions(st, TRUE, container) = container

\* a tick of the session i runs at the audio time t and passes its guard:
\* a callback of the chain, or the first call at the end of the start
TickRan(i, t) ==
    \/ \E c \in raf, rnd \in PlainDraws :
          c.owner = i /\ tick(c, t, "silent", rnd) /\ GuardPasses
    \/ /\ t = 0 /\ mounted /\ refs.gl /\ ~RecorderThrows(inv[i].mode)
       /\ \E rnd \in PlainDraws : decodeDone(i, "silent", rnd)

\* the duration of a line: 3 seconds when it has none (zeroToo: also when
\* it is 0), and the positions of the lines whose window holds t
DurationOf(l, zeroToo) ==
    IF ~l.hasDuration \/ (zeroToo /\ l.duration = 0) THEN 3 ELSE l.duration

Qualifying(lines, t, zeroToo) ==
    {k \in 1..Len(lines) :
        lines[k].time <= t /\ t < lines[k].time + DurationOf(lines[k], zeroToo)}

FirstOf(S) == CHOOSE k \in S : \A j \in S : k <= j

\* a tick shows the first qualifying line of the sequence its session holds
\* and draws no lyric content when no line qualifies
ActiveLineRule(zeroToo) ==
    \A i \in Ids, t \in Times :
       (TickRan(i, t) /\ inv[i].lyrics.isArray) =>
          LET lines == inv[i].lyrics.lines
              Q == Qualifying(lines, t, zeroToo)
          IN  IF Q = {}
              THEN drawn' = NothingDrawn /\ lyricIdx' = lyricIdx
              ELSE /\ lyricIdx' = FirstOf(Q) - 1
                   /\ lines[FirstOf(Q)].hasText =>
                         /\ drawn'.line = FirstOf(Q)
                         /\ drawn'.text = SubSeq(lines[FirstOf(Q)].text, 1,
                                                 Len(drawn'.text))

\* C13: at every tick the active line is the first line, in
\* sequence order, with time <= elapsed < time + duration, the duration being
\* 3 seconds when the line specifies none; with no such line (the empty
\* sequence included) no lyric content is drawn.
C13_FirstQualifyingLine == [][ActiveLineRule(FALSE)]_vars

\* C13, what the ticks do: the same with a duration of 3 seconds also for a
\* line that specifies a duration of 0.
C13_FirstQualifyingLineZeroDefault == [][ActiveLineRule(TRUE)]_vars

\* a tick has drawn the second line at a time where the third qualifies too
C13_Witness ==
    /\ drawn.line = 2 /\ lyricIdx = 1 /\ elapsed = 1
    /\ \E i \in PlayingRuns :
          /\ inv[i].lyrics.isArray
          /\ Qualifying(inv[i].lyrics.lines, 1, TRUE) = {2, 3}

\* a tick of the particle session runs on the frame fr and passes its guard:
\* a callback, or the first call at the end of the start, of either component
ParticleTickBy(fr, D) ==
    \/ /\ variant = 2 /\ GuardPasses
       /\ \E c \in raf, rnd \in D : tickWithin(MaxDecayFrames, c, elapsed, fr, rnd)
    \/ /\ variant = 2 /\ mounted /\ refs.gl
       /\ \E i \in Ids, rnd \in D : decodeDone(i, fr, rnd)
    \/ /\ variant = 1 /\ mounted /\ refs.gl /\ refs.analyser # Null
       /\ \E c \in raf, rnd \in D : tickWithin1(MaxDecayFrames, c, fr, rnd)
    \/ /\ variant = 1 /\ mounted /\ refs.gl
       /\ \E i \in Ids, rnd \in D : decodeDone1(i, fr, rnd)

ParticleTick(fr) == ParticleTickBy(fr, ParticleDraws)

\* the total of the bytes of the bins lo .. hi - 1 of a frame, counted
BinTotal(f, lo, hi) ==
    Cardinality({p \in (lo..(hi - 1)) \X (1..255) : p[2] <= f[p[1]]})

\* per frame, the totals of bins 0-9, 10-99 and 100 upwards: the band values
\* times 10 * 255, 90 * 255 and (bins - 100) * 255
BandTotals ==
    [name \in FrameNames |->
        [bass |-> BinTotal(FrameData(name), 0, 10),
         mid  |-> BinTotal(FrameData(name), 10, 100),
         high |-> BinTotal(FrameData(name), 100, FftSize \div 2)]]

\* a band value is within [0, 1.1]: total / (bins * 255) <= 11 / 10
InUnitRange(total, bins) == 0 <= total /\ total * 10 <= 11 * bins * 255

\* C14: the bass, mid and high values a tick computes are functions of the
\* frequency frame alone: the means of bins 0-9, of bins 10-99 and of the
\* remaining bins, each divided by 255; each lies in [0, 1.1]; for the frame
\* with bins 0-9 at 255 and all others at 0 they are 1, 0 and 0.
C14_BandsOfFrame ==
    [][\A fr \in FrameNames :
          ParticleTick(fr) =>
             /\ uniforms' = BandTotals[fr]
             /\ InUnitRange(uniforms'.bass, 10)
             /\ InUnitRange(uniforms'.mid, 90)
             /\ InUnitRange(uniforms'.high, (FftSize \div 2) - 100)
             /\ fr = "bassOnly" =>
                   uniforms' = [bass |-> 10 * 255, mid |-> 0, high |-> 0]]_vars

\* a tick of the first component has computed the bands of the frame with
\* bins 0-9 at 255 and the others at 0
C14_Witness ==
    /\ variant = 1 /\ raf # {}
    /\ uniforms = [bass |-> 10 * 255, mid |-> 0, high |-> 0]

\* the line a tick of the session i shows at time t (0: none), by the window
\* the ticks use
ShownLine(i, t) ==
    LET Q == Qualifying(inv[i].lyrics.lines, t, TRUE)
    IN  IF Q = {} THEN 0 ELSE FirstOf(Q)

\* a tick of the session i at time t reveals characters of a line with a text
Reveals(i, t) ==
    /\ TickRan(i, t)
    /\ inv[i].lyrics.isArray
    /\ ShownLine(i, t) # 0
    /\ inv[i].lyrics.lines[ShownLine(i, t)].hasText

TextShown(i, t) == inv[i].lyrics.lines[ShownLine(i, t)].text

\* C15: the decoded-character counter never exceeds the length of the text
\* of the active line.
C15_CounterWithinText ==
    [][\A i \in Ids, t \in Times :
          Reveals(i, t) => decoded' <= Len(TextShown(i, t)) * DecodedScale]_vars

\* C16: the counter is reset to 0 in exactly the ticks whose active line
\* has another index than the one displayed before (the first active line
\* after a stop or a start included): such a tick leaves it at one reveal
\* step from 0; a tick with the index unchanged goes on from the counter it
\* finds, which never decreases.
C16_ResetOnLineChange ==
    [][\A i \in Ids, t \in Times :
          Reveals(i, t) =>
             LET len == Len(TextShown(i, t)) * DecodedScale
             IN  IF lyricIdx # ShownLine(i, t) - 1
                 THEN decoded' = (IF 0 < len THEN RevealStep ELSE 0)
                 ELSE /\ decoded' >= decoded
                      /\ decoded' = (IF decoded < len THEN decoded + RevealStep
                                     ELSE decoded)]_vars

\* the second line has just become the active one, after the first
C16_Witness ==
    /\ lyricIdx = 1 /\ drawn.line = 2 /\ frames >= 1
    /\ decoded = RevealStep

\* the first k characters of a text
Prefix(text, k) == [j \in 1..k |-> text[j]]

\* C17: the string a tick renders is the prefix of the text of length
\* floor(counter), followed by one decorative glyph exactly when that prefix
\* is shorter than the text; once the reveal is complete it is the text.
C17_PrefixAndGlyph ==
    [][\A i \in Ids, t \in Times :
          Reveals(i, t) =>
             LET text == TextShown(i, t)
                 shown == decoded' \div DecodedScale
             IN  /\ Len(drawn'.text) = shown
                 /\ drawn'.text = Prefix(text, Len(drawn'.text))
                 /\ drawn'.glyph = (Len(drawn'.text) < Len(text))
                 /\ decoded' >= Len(text) * DecodedScale =>
                       drawn'.text = text /\ ~drawn'.glyph]_vars

\* C17, what the ticks do: the same for the prefix of length floor(counter)
\* or, when that is more than the text has, the whole text.
C17_ClampedPrefixAndGlyph ==
    [][\A i \in Ids, t \in Times :
          Reveals(i, t) =>
             LET text == TextShown(i, t)
                 shown == decoded' \div DecodedScale
             IN  /\ Len(drawn'.text) = (IF shown < Len(text) THEN shown ELSE Len(text))
                 /\ drawn'.text = Prefix(text, Len(drawn'.text))
                 /\ drawn'.glyph = (Len(drawn'.text) < Len(text))
                 /\ decoded' >= Len(text) * DecodedScale =>
                       drawn'.text = text /\ ~drawn'.glyph]_vars

\* the ticks within which a pool without spawns is empty: ceil(1 / 0.03) for
\* the second component, ceil(1 / 0.05) for the first
TicksToExpire == IF variant = 2 THEN 34 ELSE 20

\* C18: while no particle is spawned the particle count does not increase
\* from tick to tick, and it is 0 within ceil(1 / decayStep) ticks: 34 for
\* the step of 0.03, 20 for the step of 0.05 of the first component.  The
\* session spawns nothing from its callback number MaxSpawnFrames on.
C18_PoolDrains ==
    [][/\ ParticleTickBy("silent", QuietDraws) => Len(particles') <= Len(particles)
       /\ frames' >= MaxSpawnFrames + TicksToExpire => particles' = <<>>]_vars

\* an emoji spawned by the last tick that could is still there 33 ticks later
C18_Witness ==
    /\ variant = 2 /\ frames = MaxSpawnFrames + 33
    /\ particles # <<>>

\* the rectangles of a pool that a tick has just spawned: pushed with life
\* 1.0 and advanced once since, by the step of the component
FreshRects(P) ==
    {j \in 1..Len(P) :
        /\ P[j].kind = "rect"
        /\ P[j].life = 100 - (IF variant = 2 THEN 3 ELSE 5)}

\* floor(bass * k) when bass > threshold, else 0, for bass = total / 2550:
\* k = 4 and 0.5 in the second component, k = 5 and 0.7 in the first
ExpectedSpawns(total) ==
    IF variant = 2
    THEN (IF total * 2 > 2550 THEN (total * 4) \div 2550 ELSE 0)
    ELSE (IF total * 10 > 7 * 2550 THEN (total * 5) \div 2550 ELSE 0)

\* C19: each tick spawns exactly floor(bass * k) rectangle particles with
\* life 1.0 when bass exceeds the threshold (k = 4 and 0.5; k = 5 and 0.7 in
\* the first component) and none when bass is at or below it; at bass 1.0
\* the count is floor(k).
C19_SpawnCount ==
    [][\A fr \in FrameNames :
          ParticleTick(fr) =>
             /\ Cardinality(FreshRects(particles')) =
                   ExpectedSpawns(BandTotals[fr].bass)
             /\ fr = "bassOnly" =>
                   Cardinality(FreshRects(particles')) = (IF variant = 2 THEN 4 ELSE 5)]_vars

\* a tick of the second component at bass 1.0 has spawned four rectangles
C19_Witness ==
    /\ variant = 2 /\ uniforms.bass = 2550
    /\ Cardinality(FreshRects(particles)) = 4

\* a particle advanced once, and the particles of a pool that are alive
\* after being advanced once each, in the order of the pool
StepOf == IF variant = 2 THEN 3 ELSE 5

Moved(p) == [p EXCEPT !.x = @ + p.vx, !.life = @ - StepOf]

RECURSIVE Survivors(_)
Survivors(P) ==
    IF P = <<>> THEN <<>>
    ELSE (IF Moved(Head(P)).life > 0 THEN << Moved(Head(P)) >> ELSE <<>>)
         \o Survivors(Tail(P))

\* C20: the removals of the advance step keep the survivors in their
\* relative order, and every particle present at the start of the step is
\* advanced exactly once: the pool after a tick is the pool before it with
\* each particle advanced once and the expired ones left out, followed by
\* the rectangles spawned by the tick, advanced once, and by its emoji.
C20_AdvanceOncePreservingOrder ==
    [][\A fr \in FrameNames :
          ParticleTick(fr) =>
             LET S == Survivors(particles)
                 P == particles'
             IN  /\ Len(P) >= Len(S)
                 /\ SubSeq(P, 1, Len(S)) = S
                 /\ \A j \in (Len(S) + 1)..Len(P) :
                       \/ P[j] = Moved(RectParticle(0, 1))
                       \/ j = Len(P) /\ P[j] = EmojiParticle(0, 1)]_vars

\* two particles advanced 33 times are about to expire ahead of a younger one
C20_Witness ==
    /\ raf # {} /\ Len(particles) >= 3
    /\ particles[1].x = 33 /\ particles[1].life <= StepOf
    /\ particles[2].life <= StepOf
    /\ particles[Len(particles)].life > StepOf

\* the rain columns for the output width and the glyph cell size of cfg
ColumnsFor(cfg) == CeilDiv(dims.main[1], FontSize(cfg))

\* a step gives the surfaces another size or the panel another configuration
ResolutionChanges == dims' # dims \/ st'.exportConfig # st.exportConfig

\* C21: at every tick the number of rain columns is ceil(outputWidth /
\* glyphCellSize) for the output width and the cell size the tick uses (16,
\* or 32 at the high tier); a tick does not alter the count, and the count
\* changes only with a resolution change.
C21_RainColumns ==
    [][/\ \A c \in raf, rnd \in PlainDraws :
             (tick(c, elapsed, "silent", rnd) /\ GuardPasses) =>
                /\ Len(drops) = ColumnsFor(inv[c.owner].exportConfig)
                /\ Len(drops') = Len(drops)
       /\ \A i \in Ids, rnd \in PlainDraws :
             (decodeDone(i, "silent", rnd) /\ raf' # raf) =>
                /\ Len(drops) = ColumnsFor(inv[i].exportConfig)
                /\ Len(drops') = Len(drops)
       /\ Len(drops') # Len(drops) => ResolutionChanges]_vars

\* a tick of the session of the steps runs and passes its guard
OrderTick ==
    \/ /\ GuardPasses
       /\ \E c \in raf, fr \in PlainFrames, rnd \in PlainDraws : tick(c, elapsed, fr, rnd)
    \/ /\ mounted /\ refs.gl
       /\ \E i \in Ids, fr \in PlainFrames, rnd \in PlainDraws :
             decodeDone(i, fr, rnd) /\ ~RecorderThrows(inv[i].mode)

\* the steps of a tick in their fixed order
FixedOrder ==
    << "sample", "background", "rain", "waveform", "particles", "lyrics",
       "restore", "scanlines", "schedule" >>

IsFixedStep(e) == \E j \in 1..Len(FixedOrder) : FixedOrder[j] = e.step

StepNames(S) == [j \in 1..Len(S) |-> S[j].step]

\* C22: within every tick the steps run in the same fixed order: sample the
\* analyzer, render the background, composite the rain, draw the waveform,
\* spawn/advance/draw the particles, select and draw the typography, undo
\* the shake/zoom transform, draw the scanlines, schedule the next tick; and
\* the scanlines are never drawn while the transform is in effect.
C22_FixedStepOrder ==
    [][OrderTick =>
          /\ StepNames(SelectSeq(steps', IsFixedStep)) = FixedOrder
          /\ \A j \in 1..Len(steps') :
                steps'[j].step = "scanlines" => ~steps'[j].shaken]_vars

\* C22, what the ticks do: a tick that does not fault runs the steps in the
\* fixed order, and draws its scanlines outside the transform when no tick
\* before it has left one in effect.
C22_FixedStepOrderUnlessFault ==
    [][(OrderTick /\ raf' # raf) =>
          /\ StepNames(SelectSeq(steps', IsFixedStep)) = FixedOrder
          /\ ~ctx2d.shaken =>
                \A j \in 1..Len(steps') :
                   steps'[j].step = "scanlines" => ~steps'[j].shaken]_vars

\* a required handle is missing for a tick that reads the refs r
Missing(r) ==
    \/ ~mounted \/ ~r.gl \/ r.analyser = Null
    \/ variant = 2 /\ r.audioContext = Null

\* the refs as the first call of a start finds them
StartedRefs(i) == [refs EXCEPT !.audioContext = i, !.analyser = i, !.source = i]

\* what a tick works on is left as it was
TickStateKept ==
    UNCHANGED << particles, drops, lyricIdx, decoded, hue >>

\* C23: a tick that finds a required handle missing (canvas, GL context,
\* analyser or audio context) is a no-op: it raises no fault and leaves the
\* particle pool, the rain drop offsets, the lyric cursor, the decoded-
\* character counter and the hue shift unchanged.
C23_MissingHandleNoOp ==
    [][/\ \A c \in raf, fr \in PlainFrames, rnd \in PlainDraws :
             (/\ Missing(refs)
              /\ \/ variant = 2 /\ tick(c, elapsed, fr, rnd)
                 \/ variant = 1 /\ tickWithin1(MaxFrames, c, fr, rnd)) =>
                /\ TickStateKept
                /\ raf' = raf \ {c} /\ pend' = pend
       /\ \A i \in Ids, fr \in PlainFrames, rnd \in PlainDraws :
             (/\ Missing(StartedRefs(i))
              /\ \/ variant = 2 /\ decodeDone(i, fr, rnd)
                 \/ variant = 1 /\ decodeDone1(i, fr, rnd)) =>
                /\ TickStateKept
                /\ raf' = raf /\ inv'[i].pc = "done"
                /\ pend'.status # "CORE_FAILURE"]_vars

\* on a platform without WebGL the first tick of a run was a no-op: the
\* source plays, no callback is pending and nothing was drawn or moved
C23_Witness ==
    /\ ~runtime.webgl /\ src[1] = "playing" /\ inv[1].pc = "done"
    /\ raf = {} /\ hue = 0 /\ particles = <<>> /\ steps = <<>>

\* C24: whenever the system is not playing (after a stop, after playback has
\* ended naturally, after a failed start) no render tick is pending: the
\* self-rescheduling loop does not outlive the playback it was started for.
C24_NoTickWhenNotPlaying ==
    (~st.isPlaying /\ ~pend.isPlaying) => raf = {}

\* C25: in a session driven by a single tick chain the particle pool never
\* holds more than (4 + 1) * 34 = 170 particles: at most 4 rectangles and 1
\* emoji are spawned per tick and every particle is removed no later than
\* its 34th advance.
C25_PoolBounded ==
    Cardinality(raf) <= 1 => Len(particles) <= (4 + 1) * 34

\* the pool of a run that spawned 4 rectangles and an emoji in every tick for
\* longer than a particle lives
C25_Witness ==
    /\ frames = MaxDecayFrames /\ raf # {}
    /\ Len(particles) >= 4 * 33 + 34

\* no run is in progress: no decode is awaited, no source plays and no
\* `ended` or recorder event is still to be delivered
NoRunInProgress ==
    /\ \A i \in Ids : inv[i].pc # "decoding" /\ src[i] # "playing"
    /\ endedEv = {} /\ recEv = {}

\* the recorder the component holds is recording, or has been stopped with
\* its `stop` event still to be delivered
RecorderOfRunActive ==
    /\ refs.mediaRecorder # Null
    /\ \/ rec[refs.mediaRecorder] = "recording"
       \/ refs.mediaRecorder \in recEv

\* isExporting (as set, and as rendered) is true only while the recorder of
\* the run is active
ExportingOnlyWhileRecording ==
    (pend.isExporting \/ st.isExporting) => RecorderOfRunActive

\* every path that ended or failed a run has left isExporting false and no
\* recorder recording
EndedRunsLeaveNoExport ==
    NoRunInProgress => (~pend.isExporting /\ RecordingRuns = {})

\* C26: the exporting flag agrees with the recorder: isExporting is true only
\* while a recorder created for the current run is recording, and every path
\* that ends or fails an export run (decode failure, no supported format or
\* recorder creation failure, missing canvas, stop, natural end) leaves
\* isExporting false with no recorder still recording.
C26_ExportingAgreesWithRecorder ==
    ExportingOnlyWhileRecording /\ EndedRunsLeaveNoExport

====
